---- MODULE Spec2Model ----
(***************************************************************************)
(* hh-permissions-tool: the role generator (src/app.py) and the policy     *)
(* auditor (src/hh_permissions_tool/cli.py).                               *)
(*                                                                         *)
(* Python strings are sequences of one-character strings, so formatting,   *)
(* str.replace, str.title and json.dumps are computed character by         *)
(* character.  An optional string (None or a str) is a record.             *)
(***************************************************************************)
EXTENDS Naturals, Sequences, FiniteSets, TLC

VARIABLES
  \* src/app.py: GCPPermissionHelper
  COMMON_SERVICES, custom_roles, ret,
  \* src/app.py: generate
  gpc, service, level, project_id, default_project, output, project,
  permissions, role_name, tf_config, file, stdout, stderr, exit_code,
  \* src/hh_permissions_tool/cli.py: audit_gcp, get_project_permissions
  apc, audit_project_id, creds_env, answer, calls, policy, idx, results,
  credentials, client, audit_permissions, console, display, raised

helperVars == <<COMMON_SERVICES, custom_roles, ret>>
genVars == <<gpc, service, level, project_id, default_project, output, project,
             permissions, role_name, tf_config, file, stdout, stderr, exit_code>>
cliVars == <<apc, audit_project_id, creds_env, answer, calls, policy, idx, results,
             credentials, client, audit_permissions, console, display, raised>>
vars == <<helperVars, genVars, cliVars>>

----------------------------------------------------------------------------
\* Bounds of the model.

\* Largest permission set registered under one role name.
MaxPerms == 2
\* Largest number of bindings in a fetched policy.
MaxBindings == 2

----------------------------------------------------------------------------
\* Strings.

None == [isNone |-> TRUE, s |-> <<>>]
Str(s) == [isNone |-> FALSE, s |-> s]
\* Python truthiness of an optional string: None and "" are falsy.
Truthy(o) == ~o.isNone /\ o.s # <<>>

LowerCase == <<"a", "b", "c", "d", "e", "f", "g", "h", "i", "j", "k", "l", "m", "n", "o", "p", "q", "r", "s", "t", "u", "v", "w", "x", "y", "z">>
UpperCase == <<"A", "B", "C", "D", "E", "F", "G", "H", "I", "J", "K", "L", "M", "N", "O", "P", "Q", "R", "S", "T", "U", "V", "W", "X", "Y", "Z">>
IsLower(c) == \E i \in 1..Len(LowerCase) : LowerCase[i] = c
IsUpper(c) == \E i \in 1..Len(UpperCase) : UpperCase[i] = c
ToUpper(c) == IF IsLower(c) THEN UpperCase[CHOOSE i \in 1..Len(LowerCase) : LowerCase[i] = c] ELSE c
ToLower(c) == IF IsUpper(c) THEN LowerCase[CHOOSE i \in 1..Len(UpperCase) : UpperCase[i] = c] ELSE c

\* s.replace(old, new) for one-character old and new.
Replace(s, old, new) == [i \in 1..Len(s) |-> IF s[i] = old THEN new ELSE s[i]]

\* str.title(): a cased character is upper-cased when the character before it is
\* not cased and lower-cased when it is; an uncased character ends the word.
RECURSIVE TitleFrom(_, _, _)
TitleFrom(s, i, previous_is_cased) ==
  IF i > Len(s) THEN <<>>
  ELSE IF IsLower(s[i])
       THEN <<IF previous_is_cased THEN s[i] ELSE ToUpper(s[i])>> \o TitleFrom(s, i + 1, TRUE)
       ELSE IF IsUpper(s[i])
            THEN <<IF previous_is_cased THEN ToLower(s[i]) ELSE s[i]>> \o TitleFrom(s, i + 1, TRUE)
            ELSE <<s[i]>> \o TitleFrom(s, i + 1, FALSE)
\* str.capitalize(): the first character upper-cased, the rest lower-cased.
Capitalize(s) == [i \in 1..Len(s) |-> IF i = 1 THEN ToUpper(s[i]) ELSE ToLower(s[i])]
Title(s) == TitleFrom(s, 1, FALSE)

\* json.dumps of a str: quoted, with the quote and the backslash escaped.
RECURSIVE JsonEscape(_)
JsonEscape(s) ==
  IF s = <<>> THEN <<>>
  ELSE (IF Head(s) = "\"" \/ Head(s) = "\\" THEN <<"\\", Head(s)>> ELSE <<Head(s)>>)
       \o JsonEscape(Tail(s))
JsonStr(s) == <<"\"">> \o JsonEscape(s) \o <<"\"">>

\* json.dumps(list, indent=4): one item per line, in list order, indented by four
\* spaces and separated by ",\n"; the empty list is "[]".
RECURSIVE JsonItems(_)
JsonItems(l) ==
  IF Len(l) = 1 THEN <<" ", " ", " ", " ">> \o JsonStr(l[1])
  ELSE <<" ", " ", " ", " ">> \o JsonStr(Head(l)) \o <<",", "\n">> \o JsonItems(Tail(l))
JsonDumpsIndent4(l) ==
  IF l = <<>> THEN <<"[", "]">>
  ELSE <<"[", "\n">> \o JsonItems(l) \o <<"\n", "]">>

----------------------------------------------------------------------------
\* src/app.py: GCPPermissionHelper

\* The class attribute COMMON_SERVICES as written in the source.
Catalog ==
  (<<"c", "o", "m", "p", "u", "t", "e">> :> (<<"v", "i", "e", "w", "e", "r">> :> <<"r", "o", "l", "e", "s", "/", "c", "o", "m", "p", "u", "t", "e", ".", "v", "i", "e", "w", "e", "r">>
                 @@ <<"a", "d", "m", "i", "n">> :> <<"r", "o", "l", "e", "s", "/", "c", "o", "m", "p", "u", "t", "e", ".", "a", "d", "m", "i", "n">>))

NoExc == "none"
Return(v) == [exc |-> NoExc, msg |-> <<>>, value |-> v]
Raise(e, m, v) == [exc |-> e, msg |-> m, value |-> v]

\* The property project_id: the environment's GCP_PROJECT_ID or BadParameter.
helper_project_id(dflt) ==
  IF ~Truthy(dflt)
  THEN Raise("BadParameter", <<"G", "C", "P", "_", "P", "R", "O", "J", "E", "C", "T", "_", "I", "D", " ", "m", "u", "s", "t", " ", "b", "e", " ", "s", "e", "t", " ", "i", "n", " ", "e", "n", "v", "i", "r", "o", "n", "m", "e", "n", "t", " ", "o", "r", " ", ".", "e", "n", "v", " ", "f", "i", "l", "e">>, <<>>)
  ELSE Return(dflt.s)

generate_service_permissions_all_levels(cat, svc, lvl) ==
  IF svc \notin DOMAIN cat
  THEN Raise("ValueError", <<"S", "e", "r", "v", "i", "c", "e", " ">> \o svc \o <<" ", "n", "o", "t", " ", "f", "o", "u", "n", "d", " ", "i", "n", " ", "c", "o", "m", "m", "o", "n", " ", "s", "e", "r", "v", "i", "c", "e", "s">>, {})
  ELSE IF lvl \notin DOMAIN cat[svc]
       THEN Raise("ValueError", <<"L", "e", "v", "e", "l", " ">> \o lvl \o <<" ", "n", "o", "t", " ", "f", "o", "u", "n", "d", " ", "f", "o", "r", " ", "s", "e", "r", "v", "i", "c", "e", " ">> \o svc, {})
       ELSE Return({cat[svc][l] : l \in DOMAIN cat[svc]})

generate_service_permissions(cat, svc, lvl) ==
  IF svc \notin DOMAIN cat
  THEN Raise("ValueError", <<"S", "e", "r", "v", "i", "c", "e", " ">> \o svc \o <<" ", "n", "o", "t", " ", "f", "o", "u", "n", "d", " ", "i", "n", " ", "c", "o", "m", "m", "o", "n", " ", "s", "e", "r", "v", "i", "c", "e", "s">>, {})
  ELSE IF lvl \notin DOMAIN cat[svc]
       THEN Raise("ValueError", <<"L", "e", "v", "e", "l", " ">> \o lvl \o <<" ", "n", "o", "t", " ", "f", "o", "u", "n", "d", " ", "f", "o", "r", " ", "s", "e", "r", "v", "i", "c", "e", " ">> \o svc, {})
       ELSE Return({cat[svc][lvl]})

\* The f-string of generate_terraform_config.
TerraformTemplate(proj, role, perms) ==
  <<"\n", "r", "e", "s", "o", "u", "r", "c", "e", " ", "\"", "g", "o", "o", "g", "l", "e", "_", "p", "r", "o", "j", "e", "c", "t", "_", "i", "a", "m", "_", "c", "u", "s", "t", "o", "m", "_", "r", "o", "l", "e", "\"", " ", "\"">> \o role \o <<"\"", " ", "{", "\n">>
  \o <<" ", " ", "p", "r", "o", "j", "e", "c", "t", " ", " ", " ", " ", " ", "=", " ", "\"">> \o proj \o <<"\"", "\n">>
  \o <<" ", " ", "r", "o", "l", "e", "_", "i", "d", " ", " ", " ", " ", " ", "=", " ", "\"">> \o role \o <<"\"", "\n">>
  \o <<" ", " ", "t", "i", "t", "l", "e", " ", " ", " ", " ", " ", " ", " ", "=", " ", "\"">> \o Title(Replace(role, "_", " ")) \o <<"\"", "\n">>
  \o <<" ", " ", "d", "e", "s", "c", "r", "i", "p", "t", "i", "o", "n", " ", "=", " ", "\"", "C", "u", "s", "t", "o", "m", " ", "r", "o", "l", "e", " ", "f", "o", "r", " ">> \o role \o <<"\"", "\n">>
  \o <<" ", " ", "p", "e", "r", "m", "i", "s", "s", "i", "o", "n", "s", " ", "=", " ">> \o JsonDumpsIndent4(perms) \o <<"\n">>
  \o <<"}", "\n">>

generate_terraform_config_empty_block(roles, proj, role) ==
  IF role \notin DOMAIN roles
  THEN Return(TerraformTemplate(proj, role, <<>>))
  ELSE Return(TerraformTemplate(proj, role, roles[role]))

generate_terraform_config(roles, proj, role) ==
  IF role \notin DOMAIN roles
  THEN Raise("ValueError", <<"C", "u", "s", "t", "o", "m", " ", "r", "o", "l", "e", " ">> \o role \o <<" ", "n", "o", "t", " ", "f", "o", "u", "n", "d">>, <<>>)
  ELSE Return(TerraformTemplate(proj, role, roles[role]))

\* list(permissions): the orders in which a set can be iterated.
ListsOf(S) == {l \in [1..Cardinality(S) -> S] : \A i, j \in 1..Cardinality(S) : i # j => l[i] # l[j]}

----------------------------------------------------------------------------
\* Inputs.

Services == {<<"c", "o", "m", "p", "u", "t", "e">>, <<"s", "t", "o", "r", "a", "g", "e">>, <<>>}
Levels == {<<"v", "i", "e", "w", "e", "r">>, <<"a", "d", "m", "i", "n">>, <<"e", "d", "i", "t", "o", "r">>}
RoleNames == {<<"c", "u", "s", "t", "o", "m", "_", "c", "o", "m", "p", "u", "t", "e", "_", "v", "i", "e", "w", "e", "r">>, <<"c", "u", "s", "t", "o", "m", "_", "G", "K", "E", "_", "v", "2", "b", "e", "t", "a">>}
Projects == {<<"d", "e", "m", "o", "-", "p", "r", "o", "j", "e", "c", "t">>, <<"p", "1">>}
PermUniverse == {<<"r", "o", "l", "e", "s", "/", "c", "o", "m", "p", "u", "t", "e", ".", "v", "i", "e", "w", "e", "r">>, <<"r", "o", "l", "e", "s", "/", "c", "o", "m", "p", "u", "t", "e", ".", "a", "d", "m", "i", "n">>, <<"c", "o", "m", "p", "u", "t", "e", ".", "i", "n", "s", "t", "a", "n", "c", "e", "s", ".", "g", "e", "t">>}
PermSets == {S \in SUBSET PermUniverse : Cardinality(S) <= MaxPerms}
OptProjects == {None, Str(<<>>)} \cup {Str(p) : p \in Projects}
\* The record of the last method call on the helper: its arguments, its outcome
\* and the custom-role map it was called with.
NoCall == [op |-> "init", svc |-> <<>>, lvl |-> <<>>, proj |-> <<>>, role |-> <<>>,
           lookup |-> Return({}), render |-> Return(<<>>), before |-> <<>>]
Absent == [exists |-> FALSE, content |-> <<>>]
FileWith(c) == [exists |-> TRUE, content |-> c]

\* Each specification keeps the other components' variables at fixed values.
HelperIdle ==
  /\ COMMON_SERVICES = Catalog
  /\ custom_roles = <<>>
  /\ ret = NoCall
GenIdle ==
  /\ gpc = "idle"
  /\ service = <<>> /\ level = <<>>
  /\ project_id = None /\ default_project = None /\ output = None
  /\ project = <<>> /\ permissions = {} /\ role_name = <<>> /\ tf_config = <<>>
  /\ file = [now |-> Absent, start |-> Absent]
  /\ stdout = <<>> /\ stderr = <<>> /\ exit_code = 0
CliIdle ==
  /\ apc = "idle"
  /\ audit_project_id = None /\ creds_env = None /\ answer = FALSE
  /\ calls = 0 /\ policy = [received |-> FALSE, bindings |-> <<>>]
  /\ idx = 0 /\ results = <<>>
  /\ credentials = FALSE /\ client = FALSE
  /\ audit_permissions = <<>> /\ console = <<>> /\ display = <<>>
  /\ raised = [kind |-> "none", text |-> <<>>]

----------------------------------------------------------------------------
\* The methods of GCPPermissionHelper, called on one helper object.

\* GCPPermissionHelper(): no custom role is registered.
HelperInit == HelperIdle /\ GenIdle /\ CliIdle

CallGenerateServicePermissions(svc, lvl) ==
  /\ ret' = [NoCall EXCEPT !.op = "lookup", !.svc = svc, !.lvl = lvl,
                        !.lookup = generate_service_permissions(COMMON_SERVICES, svc, lvl),
                        !.before = custom_roles]
  /\ UNCHANGED <<COMMON_SERVICES, custom_roles, genVars, cliVars>>

\* helper.custom_roles[role_name] = list(permissions)
RegisterRole(role, perms) ==
  /\ \E l \in ListsOf(perms) :
       custom_roles' = [r \in DOMAIN custom_roles \cup {role} |->
                          IF r = role THEN l ELSE custom_roles[r]]
  /\ ret' = [NoCall EXCEPT !.op = "register"]
  /\ UNCHANGED <<COMMON_SERVICES, genVars, cliVars>>

CallGenerateTerraformConfig(proj, role) ==
  /\ ret' = [NoCall EXCEPT !.op = "render", !.proj = proj, !.role = role,
                        !.render = generate_terraform_config(custom_roles, proj, role),
                        !.before = custom_roles]
  /\ UNCHANGED <<COMMON_SERVICES, custom_roles, genVars, cliVars>>

HelperNext ==
  \/ \E svc \in Services, lvl \in Levels : CallGenerateServicePermissions(svc, lvl)
  \/ \E role \in RoleNames, perms \in PermSets : RegisterRole(role, perms)
  \/ \E proj \in Projects, role \in RoleNames : CallGenerateTerraformConfig(proj, role)

SpecHelper == HelperInit /\ [][HelperNext]_vars

----------------------------------------------------------------------------
\* src/app.py: the generate command, statement by statement.

OutputPaths == {None, Str(<<"o", "u", "t", ".", "t", "f">>)}
OldContent == <<"#", " ", "o", "l", "d", "\n">>

\* The state when the body of generate starts: helper = GCPPermissionHelper() has
\* read GCP_PROJECT_ID and the command-line arguments are bound.
GenInit ==
  /\ COMMON_SERVICES = Catalog /\ custom_roles = <<>> /\ ret = NoCall
  /\ gpc = "resolve"
  /\ service \in Services /\ level \in Levels
  /\ project_id \in OptProjects /\ default_project \in OptProjects
  /\ output \in OutputPaths
  /\ project = <<>> /\ permissions = {} /\ role_name = <<>> /\ tf_config = <<>>
  /\ \E f \in {Absent, FileWith(OldContent)} : file = [now |-> f, start |-> f]
  /\ stdout = <<>> /\ stderr = <<>> /\ exit_code = 0
  /\ CliIdle

GenExceptExitZero(r) ==
  /\ stderr' = Append(stderr, <<"E", "r", "r", "o", "r", ":", " ">> \o r.msg)
  /\ exit_code' = 0
  /\ gpc' = "error"

\* except (ValueError, typer.BadParameter): echo to the error stream, Exit(code=1).
GenExcept(r) ==
  /\ stderr' = Append(stderr, <<"E", "r", "r", "o", "r", ":", " ">> \o r.msg)
  /\ exit_code' = 1
  /\ gpc' = "error"

\* project = project_id or helper.project_id
GenResolveProject ==
  /\ gpc = "resolve"
  /\ IF Truthy(project_id)
     THEN /\ project' = project_id.s
          /\ gpc' = "lookup"
          /\ UNCHANGED <<stderr, exit_code>>
     ELSE LET r == helper_project_id(default_project) IN
          IF r.exc # NoExc
          THEN GenExcept(r) /\ UNCHANGED project
          ELSE /\ project' = r.value
               /\ gpc' = "lookup"
               /\ UNCHANGED <<stderr, exit_code>>
  /\ UNCHANGED <<helperVars, cliVars, service, level, project_id, default_project, output,
                 permissions, role_name, tf_config, file, stdout>>

\* generate with the output file opened for writing before the lookup.
GenLookupOpensOutputFirst ==
  /\ gpc = "lookup"
  /\ file' = IF output.isNone THEN file ELSE [file EXCEPT !.now = FileWith(<<>>)]
  /\ LET r == generate_service_permissions(COMMON_SERVICES, service, level) IN
     IF r.exc # NoExc
     THEN GenExcept(r) /\ UNCHANGED permissions
     ELSE /\ permissions' = r.value
          /\ gpc' = "register"
          /\ UNCHANGED <<stderr, exit_code>>
  /\ UNCHANGED <<helperVars, cliVars, service, level, project_id, default_project, output,
                 project, role_name, tf_config, stdout>>

\* permissions = helper.generate_service_permissions(service, level)
GenLookup ==
  /\ gpc = "lookup"
  /\ LET r == generate_service_permissions(COMMON_SERVICES, service, level) IN
     IF r.exc # NoExc
     THEN GenExcept(r) /\ UNCHANGED permissions
     ELSE /\ permissions' = r.value
          /\ gpc' = "register"
          /\ UNCHANGED <<stderr, exit_code>>
  /\ UNCHANGED <<helperVars, cliVars, service, level, project_id, default_project, output,
                 project, role_name, tf_config, file, stdout>>

\* role_name = f"custom_{service}_{level}"; custom_roles[role_name] = list(permissions)
GenRegister ==
  /\ gpc = "register"
  /\ role_name' = <<"c", "u", "s", "t", "o", "m", "_">> \o service \o <<"_">> \o level
  /\ \E l \in ListsOf(permissions) :
       custom_roles' = [r \in DOMAIN custom_roles \cup {role_name'} |->
                          IF r = role_name' THEN l ELSE custom_roles[r]]
  /\ gpc' = "render"
  /\ UNCHANGED <<COMMON_SERVICES, ret, cliVars, service, level, project_id, default_project,
                 output, project, permissions, tf_config, file, stdout, stderr, exit_code>>

\* tf_config = helper.generate_terraform_config(project, role_name)
GenRender ==
  /\ gpc = "render"
  /\ LET r == generate_terraform_config(custom_roles, project, role_name) IN
     IF r.exc # NoExc
     THEN GenExcept(r) /\ UNCHANGED tf_config
     ELSE /\ tf_config' = r.value
          /\ gpc' = "emit"
          /\ UNCHANGED <<stderr, exit_code>>
  /\ UNCHANGED <<helperVars, cliVars, service, level, project_id, default_project, output,
                 project, permissions, role_name, file, stdout>>

\* if output: output.write_text(tf_config); rprint(...).  A Path is always truthy.
GenWriteText ==
  /\ gpc = "emit"
  /\ ~output.isNone
  /\ file' = [file EXCEPT !.now = FileWith(tf_config)]
  /\ stdout' = Append(stdout, <<"C", "o", "n", "f", "i", "g", "u", "r", "a", "t", "i", "o", "n", " ", "w", "r", "i", "t", "t", "e", "n", " ", "t", "o", " ">> \o output.s \o <<"\n">>)
  /\ gpc' = "done"
  /\ UNCHANGED <<helperVars, cliVars, service, level, project_id, default_project, output,
                 project, permissions, role_name, tf_config, stderr, exit_code>>

\* output.write_text raises OSError, which generate does not catch: the path could
\* not be opened (the file is as it was) or the write stopped part-way (the file
\* holds a proper prefix of the text).  The interpreter exits with status 1.
GenWriteTextFails ==
  /\ gpc = "emit"
  /\ ~output.isNone
  /\ \/ UNCHANGED file
     \/ \E n \in 0..(Len(tf_config) - 1) :
          file' = [file EXCEPT !.now = FileWith(SubSeq(tf_config, 1, n))]
  /\ exit_code' = 1
  /\ gpc' = "crashed"
  /\ UNCHANGED <<helperVars, cliVars, service, level, project_id, default_project, output,
                 project, permissions, role_name, tf_config, stdout, stderr>>

\* else: print(tf_config)
GenPrint ==
  /\ gpc = "emit"
  /\ output.isNone
  /\ stdout' = Append(stdout, tf_config \o <<"\n">>)
  /\ gpc' = "done"
  /\ UNCHANGED <<helperVars, cliVars, service, level, project_id, default_project, output,
                 project, permissions, role_name, tf_config, file, stderr, exit_code>>

GenNext ==
  \/ GenResolveProject
  \/ GenLookup
  \/ GenRegister
  \/ GenRender
  \/ GenWriteText
  \/ GenWriteTextFails
  \/ GenPrint

SpecGenerate == GenInit /\ [][GenNext]_vars

----------------------------------------------------------------------------
\* src/hh_permissions_tool/cli.py: audit_gcp and get_project_permissions.

NoException == [kind |-> "none", text |-> <<>>]
\* What from_service_account_file and ProjectsClient(...) raise: an unreadable or
\* malformed key file.
InitExceptions ==
  {[kind |-> "FileNotFoundError", text |-> <<"n", "o", " ", "s", "u", "c", "h", " ", "f", "i", "l", "e">>],
   [kind |-> "ValueError", text |-> <<"b", "a", "d", " ", "k", "e", "y", " ", "f", "i", "l", "e">>]}
\* What client.get_iam_policy raises: the provider's authorization and not-found
\* errors, a network failure, expired credentials.
CallExceptions ==
  {[kind |-> "PermissionDenied", text |-> <<"4", "0", "3", " ", "d", "e", "n", "i", "e", "d">>],
   [kind |-> "NotFound", text |-> <<"4", "0", "4", " ", "m", "i", "s", "s", "i", "n", "g">>],
   [kind |-> "ServiceUnavailable", text |-> <<"5", "0", "3", " ", "u", "n", "a", "v", "a", "i", "l", "a", "b", "l", "e">>],
   [kind |-> "RefreshError", text |-> <<"t", "o", "k", "e", "n", " ", "e", "x", "p", "i", "r", "e", "d">>]}
\* What reading a binding of a malformed response raises.
BindingExceptions == {[kind |-> "TypeError", text |-> <<"n", "o", "t", " ", "i", "t", "e", "r", "a", "b", "l", "e">>]}
\* What printing the table raises.
DisplayExceptions == {[kind |-> "BrokenPipeError", text |-> <<"b", "r", "o", "k", "e", "n", " ", "p", "i", "p", "e">>]}

BindingUniverse ==
  {[role |-> <<"r", "o", "l", "e", "s", "/", "v", "i", "e", "w", "e", "r">>, members |-> <<<<"u", "s", "e", "r", ":", "a">>>>],
   [role |-> <<"r", "o", "l", "e", "s", "/", "o", "w", "n", "e", "r">>, members |-> <<<<"u", "s", "e", "r", ":", "a">>, <<"g", "r", "o", "u", "p", ":", "b">>>>]}
RECURSIVE SeqsUpTo(_, _)
SeqsUpTo(S, n) ==
  IF n = 0 THEN {<<>>}
  ELSE SeqsUpTo(S, n - 1) \cup {Append(s, x) : s \in {t \in SeqsUpTo(S, n - 1) : Len(t) = n - 1}, x \in S}
Policies == SeqsUpTo(BindingUniverse, MaxBindings)
CredentialPaths == {None, Str(<<>>), Str(<<"k", "e", "y", ".", "j", "s", "o", "n">>)}

\* A line on the console: printed by console.print, or logged by logger.error,
\* whose sink is the console (the message only, without the log prefix).
Printed(t) == [kind |-> "print", text |-> t]
Logged(t) == [kind |-> "log", text |-> t]

MissingProjectMessage == Printed(<<"[", "r", "e", "d", "]", "E", "r", "r", "o", "r", ":", "[", "/", "r", "e", "d", "]", " ", "P", "r", "o", "j", "e", "c", "t", " ", "I", "D", " ", "i", "s", " ", "r", "e", "q", "u", "i", "r", "e", "d", ".", " ", "P", "l", "e", "a", "s", "e", " ", "p", "r", "o", "v", "i", "d", "e", " ", "i", "t", " ", "v", "i", "a", " ", "-", "-", "p", "r", "o", "j", "e", "c", "t", "-", "i", "d", " ", "o", "r", " ", "G", "O", "O", "G", "L", "E", "_", "C", "L", "O", "U", "D", "_", "P", "R", "O", "J", "E", "C", "T", " ", "e", "n", "v", "i", "r", "o", "n", "m", "e", "n", "t", " ", "v", "a", "r", "i", "a", "b", "l", "e", ".">>)
MissingCredentialsMessage == Printed(<<"[", "r", "e", "d", "]", "E", "r", "r", "o", "r", ":", "[", "/", "r", "e", "d", "]", " ", "G", "o", "o", "g", "l", "e", " ", "C", "l", "o", "u", "d", " ", "c", "r", "e", "d", "e", "n", "t", "i", "a", "l", "s", " ", "n", "o", "t", " ", "f", "o", "u", "n", "d", ".", " ", "P", "l", "e", "a", "s", "e", " ", "s", "e", "t", " ", "G", "O", "O", "G", "L", "E", "_", "A", "P", "P", "L", "I", "C", "A", "T", "I", "O", "N", "_", "C", "R", "E", "D", "E", "N", "T", "I", "A", "L", "S", " ", "e", "n", "v", "i", "r", "o", "n", "m", "e", "n", "t", " ", "v", "a", "r", "i", "a", "b", "l", "e", ".">>)
NoPermissionsMessage == Printed(<<"[", "y", "e", "l", "l", "o", "w", "]", "N", "o", " ", "p", "e", "r", "m", "i", "s", "s", "i", "o", "n", "s", " ", "f", "o", "u", "n", "d", " ", "f", "o", "r", " ", "t", "h", "i", "s", " ", "p", "r", "o", "j", "e", "c", "t", ".", "[", "/", "y", "e", "l", "l", "o", "w", "]">>)

\* The state when the body of audit_gcp starts.
CliInit ==
  /\ HelperIdle /\ GenIdle
  /\ apc = "check_project"
  /\ audit_project_id \in OptProjects
  /\ creds_env \in CredentialPaths
  /\ answer = FALSE
  /\ calls = 0 /\ policy = [received |-> FALSE, bindings |-> <<>>]
  /\ idx = 0 /\ results = <<>>
  /\ credentials = FALSE /\ client = FALSE
  /\ audit_permissions = <<>> /\ console = <<>> /\ display = <<>>
  /\ raised = NoException

getVars == <<calls, policy, idx, results, credentials, client, audit_permissions, raised>>

\* if not project_id: print, return
AuditCheckProject ==
  /\ apc = "check_project"
  /\ IF ~Truthy(audit_project_id)
     THEN /\ console' = Append(console, MissingProjectMessage)
          /\ apc' = "returned"
     ELSE /\ apc' = "check_credentials"
          /\ UNCHANGED console
  /\ UNCHANGED <<helperVars, genVars, audit_project_id, creds_env, answer, getVars, display>>

AuditSkipCredentialsCheck ==
  /\ apc = "check_credentials"
  /\ apc' = "confirm"
  /\ UNCHANGED <<helperVars, genVars, audit_project_id, creds_env, answer, getVars, display, console>>

\* if not os.getenv("GOOGLE_APPLICATION_CREDENTIALS"): print, return
AuditCheckCredentials ==
  /\ apc = "check_credentials"
  /\ IF ~Truthy(creds_env)
     THEN /\ console' = Append(console, MissingCredentialsMessage)
          /\ apc' = "returned"
     ELSE /\ apc' = "confirm"
          /\ UNCHANGED console
  /\ UNCHANGED <<helperVars, genVars, audit_project_id, creds_env, answer, getVars, display>>

\* if not Confirm.ask(...): return
AuditConfirm ==
  /\ apc = "confirm"
  /\ \E a \in BOOLEAN :
       /\ answer' = a
       /\ apc' = IF a THEN "load_credentials" ELSE "returned"
  /\ UNCHANGED <<helperVars, genVars, audit_project_id, creds_env, getVars, display, console>>

\* The outer handler of get_project_permissions: except Exception.
InitFailure(e) ==
  /\ raised' = e
  /\ console' = console \o <<Logged(<<"F", "a", "i", "l", "e", "d", " ", "t", "o", " ", "i", "n", "i", "t", "i", "a", "l", "i", "z", "e", " ", "c", "l", "i", "e", "n", "t", ":", " ">> \o e.text),
                             Printed(<<"[", "r", "e", "d", "]", "E", "r", "r", "o", "r", ":", "[", "/", "r", "e", "d", "]", " ", "F", "a", "i", "l", "e", "d", " ", "t", "o", " ", "i", "n", "i", "t", "i", "a", "l", "i", "z", "e", " ", "G", "o", "o", "g", "l", "e", " ", "C", "l", "o", "u", "d", " ", "c", "l", "i", "e", "n", "t", ".", " ", "C", "h", "e", "c", "k", " ", "y", "o", "u", "r", " ", "s", "e", "r", "v", "i", "c", "e", " ", "a", "c", "c", "o", "u", "n", "t", " ", "c", "r", "e", "d", "e", "n", "t", "i", "a", "l", "s", ".">>)>>
  /\ audit_permissions' = <<>>
  /\ apc' = "display"

\* credentials = service_account.Credentials.from_service_account_file(creds_path, ...)
GetLoadCredentials ==
  /\ apc = "load_credentials"
  /\ \/ /\ credentials' = TRUE
        /\ apc' = "create_client"
        /\ UNCHANGED <<raised, console, audit_permissions>>
     \/ \E e \in InitExceptions : InitFailure(e) /\ UNCHANGED credentials
  /\ UNCHANGED <<helperVars, genVars, audit_project_id, creds_env, answer, calls, policy, idx,
                 results, client, display>>

\* client = resourcemanager_v3.ProjectsClient(credentials=credentials)
GetCreateClient ==
  /\ apc = "create_client"
  /\ \/ /\ client' = TRUE
        /\ apc' = "fetch"
        /\ UNCHANGED <<raised, console, audit_permissions>>
     \/ \E e \in InitExceptions : InitFailure(e) /\ UNCHANGED client
  /\ UNCHANGED <<helperVars, genVars, audit_project_id, creds_env, answer, calls, policy, idx,
                 results, credentials, display>>

ClassifyFailureOneMessage(e, pid) ==
  <<Logged(<<"E", "r", "r", "o", "r", " ", "a", "n", "a", "l", "y", "z", "i", "n", "g", " ", "p", "e", "r", "m", "i", "s", "s", "i", "o", "n", "s", ":", " ">> \o e.text),
    Printed(<<"[", "r", "e", "d", "]", "E", "r", "r", "o", "r", ":", "[", "/", "r", "e", "d", "]", " ", "F", "a", "i", "l", "e", "d", " ", "t", "o", " ", "a", "n", "a", "l", "y", "z", "e", " ", "p", "e", "r", "m", "i", "s", "s", "i", "o", "n", "s", ".", " ", "C", "h", "e", "c", "k", " ", "i", "f", " ", "r", "e", "q", "u", "i", "r", "e", "d", " ", "A", "P", "I", "s", " ", "a", "r", "e", " ", "e", "n", "a", "b", "l", "e", "d", ".">>)>>

\* The inner handlers: except PermissionDenied, except NotFound, except Exception.
ClassifyFailure(e, pid) ==
  IF e.kind = "PermissionDenied"
  THEN <<Logged(<<"P", "e", "r", "m", "i", "s", "s", "i", "o", "n", " ", "d", "e", "n", "i", "e", "d", ":", " ">> \o e.text),
         Printed(<<"[", "r", "e", "d", "]", "E", "r", "r", "o", "r", ":", "[", "/", "r", "e", "d", "]", " ", "I", "n", "s", "u", "f", "f", "i", "c", "i", "e", "n", "t", " ", "p", "e", "r", "m", "i", "s", "s", "i", "o", "n", "s", ".", " ", "P", "l", "e", "a", "s", "e", " ", "e", "n", "s", "u", "r", "e", " ", "y", "o", "u", "r", " ", "s", "e", "r", "v", "i", "c", "e", " ", "a", "c", "c", "o", "u", "n", "t", " ", "h", "a", "s", " ", "t", "h", "e", " ", "'", "r", "o", "l", "e", "s", "/", "v", "i", "e", "w", "e", "r", "'", " ", "r", "o", "l", "e", ".">>)>>
  ELSE IF e.kind = "NotFound"
       THEN <<Logged(<<"P", "r", "o", "j", "e", "c", "t", " ", "n", "o", "t", " ", "f", "o", "u", "n", "d", ":", " ">> \o e.text),
              Printed(<<"[", "r", "e", "d", "]", "E", "r", "r", "o", "r", ":", "[", "/", "r", "e", "d", "]", " ", "P", "r", "o", "j", "e", "c", "t", " ">> \o pid \o <<" ", "n", "o", "t", " ", "f", "o", "u", "n", "d", ".">>)>>
       ELSE <<Logged(<<"E", "r", "r", "o", "r", " ", "a", "n", "a", "l", "y", "z", "i", "n", "g", " ", "p", "e", "r", "m", "i", "s", "s", "i", "o", "n", "s", ":", " ">> \o e.text),
              Printed(<<"[", "r", "e", "d", "]", "E", "r", "r", "o", "r", ":", "[", "/", "r", "e", "d", "]", " ", "F", "a", "i", "l", "e", "d", " ", "t", "o", " ", "a", "n", "a", "l", "y", "z", "e", " ", "p", "e", "r", "m", "i", "s", "s", "i", "o", "n", "s", ".", " ", "C", "h", "e", "c", "k", " ", "i", "f", " ", "r", "e", "q", "u", "i", "r", "e", "d", " ", "A", "P", "I", "s", " ", "a", "r", "e", " ", "e", "n", "a", "b", "l", "e", "d", ".">>)>>

CallFailure(e) ==
  /\ raised' = e
  /\ console' = console \o ClassifyFailure(e, audit_project_id.s)
  /\ audit_permissions' = <<>>
  /\ apc' = "display"

GetIamPolicyRetrying ==
  /\ apc = "fetch"
  /\ \/ \E p \in Policies :
          /\ calls' = calls + 1
          /\ policy' = [received |-> TRUE, bindings |-> p]
          /\ apc' = "process"
          /\ UNCHANGED <<raised, console, audit_permissions>>
     \/ \E e \in CallExceptions :
          /\ calls' = calls + 2
          /\ CallFailure(e) /\ UNCHANGED policy
  /\ UNCHANGED <<helperVars, genVars, audit_project_id, creds_env, answer, idx, results,
                 credentials, client, display>>

\* policy = await asyncio.to_thread(client.get_iam_policy, request=request)
GetIamPolicy ==
  /\ apc = "fetch"
  /\ calls' = calls + 1
  /\ \/ \E p \in Policies :
          /\ policy' = [received |-> TRUE, bindings |-> p]
          /\ apc' = "process"
          /\ UNCHANGED <<raised, console, audit_permissions>>
     \/ \E e \in CallExceptions : CallFailure(e) /\ UNCHANGED policy
  /\ UNCHANGED <<helperVars, genVars, audit_project_id, creds_env, answer, idx, results,
                 credentials, client, display>>

\* The record appended for one binding.
Record(binding, pid) ==
  [role |-> binding.role, members |-> binding.members, resource |-> <<"p", "r", "o", "j", "e", "c", "t", "s", "/">> \o pid]

GetProcessBindingKeepsPartial ==
  /\ apc = "process"
  /\ idx < Len(policy.bindings)
  /\ \/ /\ results' = Append(results, Record(policy.bindings[idx + 1], audit_project_id.s))
        /\ idx' = idx + 1
        /\ UNCHANGED <<raised, console, audit_permissions, apc>>
     \/ \E e \in BindingExceptions :
          /\ raised' = e
          /\ console' = console \o ClassifyFailure(e, audit_project_id.s)
          /\ audit_permissions' = results
          /\ apc' = "display"
          /\ UNCHANGED <<results, idx>>
  /\ UNCHANGED <<helperVars, genVars, audit_project_id, creds_env, answer, calls, policy,
                 credentials, client, display>>

\* for binding in policy.bindings: results.append({...})
GetProcessBinding ==
  /\ apc = "process"
  /\ idx < Len(policy.bindings)
  /\ \/ /\ results' = Append(results, Record(policy.bindings[idx + 1], audit_project_id.s))
        /\ idx' = idx + 1
        /\ UNCHANGED <<raised, console, audit_permissions, apc>>
     \/ \E e \in BindingExceptions : CallFailure(e) /\ UNCHANGED <<results, idx>>
  /\ UNCHANGED <<helperVars, genVars, audit_project_id, creds_env, answer, calls, policy,
                 credentials, client, display>>

\* progress.update(task, completed=True); return results
GetReturnResults ==
  /\ apc = "process"
  /\ idx = Len(policy.bindings)
  /\ audit_permissions' = results
  /\ apc' = "display"
  /\ UNCHANGED <<helperVars, genVars, audit_project_id, creds_env, answer, calls, policy, idx,
                 results, credentials, client, raised, console, display>>

\* if permissions: display_permissions_table(permissions)
AuditDisplayTable ==
  /\ apc = "display"
  /\ audit_permissions # <<>>
  /\ display' = audit_permissions
  /\ apc' = "returned"
  /\ UNCHANGED <<helperVars, genVars, audit_project_id, creds_env, answer, getVars, console>>

\* except Exception around the run and the display: log, print, return.
AuditDisplayFails ==
  /\ apc = "display"
  /\ audit_permissions # <<>>
  /\ \E e \in DisplayExceptions :
       console' = console \o <<Logged(<<"F", "a", "i", "l", "e", "d", " ", "t", "o", " ", "r", "u", "n", " ", "a", "u", "d", "i", "t", ":", " ">> \o e.text),
                               Printed(<<"[", "r", "e", "d", "]", "F", "a", "i", "l", "e", "d", " ", "t", "o", " ", "r", "u", "n", " ", "p", "e", "r", "m", "i", "s", "s", "i", "o", "n", "s", " ", "a", "u", "d", "i", "t", ".", " ", "P", "l", "e", "a", "s", "e", " ", "c", "h", "e", "c", "k", " ", "y", "o", "u", "r", " ", "c", "r", "e", "d", "e", "n", "t", "i", "a", "l", "s", " ", "a", "n", "d", " ", "p", "r", "o", "j", "e", "c", "t", " ", "c", "o", "n", "f", "i", "g", "u", "r", "a", "t", "i", "o", "n", ".", "[", "/", "r", "e", "d", "]">>)>>
  /\ apc' = "returned"
  /\ UNCHANGED <<helperVars, genVars, audit_project_id, creds_env, answer, getVars, display>>

\* else: print "No permissions found for this project."
AuditNoPermissions ==
  /\ apc = "display"
  /\ audit_permissions = <<>>
  /\ console' = Append(console, NoPermissionsMessage)
  /\ apc' = "returned"
  /\ UNCHANGED <<helperVars, genVars, audit_project_id, creds_env, answer, getVars, display>>

CliNext ==
  \/ AuditCheckProject
  \/ AuditCheckCredentials
  \/ AuditConfirm
  \/ GetLoadCredentials
  \/ GetCreateClient
  \/ GetIamPolicy
  \/ GetProcessBinding
  \/ GetReturnResults
  \/ AuditDisplayTable
  \/ AuditDisplayFails
  \/ AuditNoPermissions

SpecAudit == CliInit /\ [][CliNext]_vars

----------------------------------------------------------------------------
\* Properties of the role generator.

Range(l) == {l[i] : i \in 1..Len(l)}
StartsWith(s, p) == Len(s) >= Len(p) /\ SubSeq(s, 1, Len(p)) = p
IndexOf(s, c) == CHOOSE i \in 1..Len(s) : s[i] = c /\ \A j \in 1..(i - 1) : s[j] # c

\* The lines of a text: the pieces between consecutive line feeds.
Lines(text) ==
  LET cuts == {0, Len(text) + 1} \cup {i \in 1..Len(text) : text[i] = "\n"}
      Nth(k) == CHOOSE p \in cuts : Cardinality({q \in cuts : q < p}) = k - 1
  IN [k \in 1..(Cardinality(cuts) - 1) |-> SubSeq(text, Nth(k) + 1, Nth(k + 1) - 1)]

\* A field line of a rendered block is indented by two spaces, an item of the
\* permissions list by four.
IsFieldLine(l) == Len(l) > 2 /\ l[1] = " " /\ l[2] = " " /\ l[3] # " "
IsItemLine(l) == StartsWith(l, <<" ", " ", " ", " ">>)
IsResourceLine(l) == StartsWith(l, <<"r", "e", "s", "o", "u", "r", "c", "e", " ", "\"", "g", "o", "o", "g", "l", "e", "_", "p", "r", "o", "j", "e", "c", "t", "_", "i", "a", "m", "_", "c", "u", "s", "t", "o", "m", "_", "r", "o", "l", "e", "\"", " ">>)
FieldKey(l) == LET rest == SubSeq(l, 3, Len(l)) IN SubSeq(rest, 1, IndexOf(rest, " ") - 1)
FieldValue(l) == SubSeq(l, IndexOf(l, "=") + 2, Len(l))
Quoted(s) == <<"\"">> \o s \o <<"\"">>
ItemOf(l) ==
  LET t == SubSeq(l, 5, Len(l))
      u == IF t[Len(t)] = "," THEN SubSeq(t, 1, Len(t) - 1) ELSE t
  IN SubSeq(u, 2, Len(u) - 1)
IsLetter(c) == IsLower(c) \/ IsUpper(c)
\* "Underscores replaced by spaces and title-cased", position by position.
IsTitleOf(t, role) ==
  /\ Len(t) = Len(role)
  /\ \A i \in 1..Len(role) :
       IF role[i] = "_" THEN t[i] = " "
       ELSE IF ~IsLetter(role[i]) THEN t[i] = role[i]
       ELSE IF i = 1 \/ ~IsLetter(role[i - 1]) THEN t[i] = ToUpper(role[i])
       ELSE t[i] = ToLower(role[i])

DemoText == <<"\n", "r", "e", "s", "o", "u", "r", "c", "e", " ", "\"", "g", "o", "o", "g", "l", "e", "_", "p", "r", "o", "j", "e", "c", "t", "_", "i", "a", "m", "_", "c", "u", "s", "t", "o", "m", "_", "r", "o", "l", "e", "\"", " ", "\"", "c", "u", "s", "t", "o", "m", "_", "c", "o", "m", "p", "u", "t", "e", "_", "v", "i", "e", "w", "e", "r", "\"", " ", "{", "\n", " ", " ", "p", "r", "o", "j", "e", "c", "t", " ", " ", " ", " ", " ", "=", " ", "\"", "d", "e", "m", "o", "-", "p", "r", "o", "j", "e", "c", "t", "\"", "\n", " ", " ", "r", "o", "l", "e", "_", "i", "d", " ", " ", " ", " ", " ", "=", " ", "\"", "c", "u", "s", "t", "o", "m", "_", "c", "o", "m", "p", "u", "t", "e", "_", "v", "i", "e", "w", "e", "r", "\"", "\n", " ", " ", "t", "i", "t", "l", "e", " ", " ", " ", " ", " ", " ", " ", "=", " ", "\"", "C", "u", "s", "t", "o", "m", " ", "C", "o", "m", "p", "u", "t", "e", " ", "V", "i", "e", "w", "e", "r", "\"", "\n", " ", " ", "d", "e", "s", "c", "r", "i", "p", "t", "i", "o", "n", " ", "=", " ", "\"", "C", "u", "s", "t", "o", "m", " ", "r", "o", "l", "e", " ", "f", "o", "r", " ", "c", "u", "s", "t", "o", "m", "_", "c", "o", "m", "p", "u", "t", "e", "_", "v", "i", "e", "w", "e", "r", "\"", "\n", " ", " ", "p", "e", "r", "m", "i", "s", "s", "i", "o", "n", "s", " ", "=", " ", "[", "\n", " ", " ", " ", " ", "\"", "r", "o", "l", "e", "s", "/", "c", "o", "m", "p", "u", "t", "e", ".", "v", "i", "e", "w", "e", "r", "\"", "\n", "]", "\n", "}", "\n">>

Rendered == ret.op = "render" /\ ret.render.exc = NoExc
InCatalog(svc, lvl) == svc \in DOMAIN Catalog /\ lvl \in DOMAIN Catalog[svc]

\* C5: for every (service, level) pair of the catalog, generate_service_permissions
\* returns a set of exactly one element, the string roles/<service>.<level>, and
\* the catalog is what it was.
C5_LookupSingleton ==
  /\ COMMON_SERVICES = Catalog
  /\ (ret.op = "lookup" /\ InCatalog(ret.svc, ret.lvl)) =>
       /\ ret.lookup.exc = NoExc
       /\ Cardinality(ret.lookup.value) = 1
       /\ ret.lookup.value = {<<"r", "o", "l", "e", "s", "/">> \o ret.svc \o <<".">> \o ret.lvl}
       /\ custom_roles = ret.before
C5_Witness ==
  /\ ret.op = "lookup" /\ ret.svc = <<"c", "o", "m", "p", "u", "t", "e">> /\ ret.lvl = <<"a", "d", "m", "i", "n">>
  /\ ret.lookup.value = {<<"r", "o", "l", "e", "s", "/", "c", "o", "m", "p", "u", "t", "e", ".", "a", "d", "m", "i", "n">>}

\* C7: the rendering of a registered role is one google_project_iam_custom_role
\* block whose fields are, in this order, project, role_id, title, description and
\* permissions; project is the given project id, role_id the role name verbatim,
\* title the role name with underscores replaced by spaces and title-cased, and the
\* permissions list holds exactly the registered permissions.  For demo-project,
\* custom_compute_viewer and {roles/compute.viewer} the text is the expected one,
\* with title Custom Compute Viewer.
C7_RenderedBlock ==
  Rendered =>
    LET lines == Lines(ret.render.value)
        fields == SelectSeq(lines, IsFieldLine)
        items == SelectSeq(lines, IsItemLine)
        perms == ret.before[ret.role]
    IN /\ Len(SelectSeq(lines, IsResourceLine)) = 1
       /\ [i \in 1..Len(fields) |-> FieldKey(fields[i])]
            = <<<<"p", "r", "o", "j", "e", "c", "t">>, <<"r", "o", "l", "e", "_", "i", "d">>, <<"t", "i", "t", "l", "e">>, <<"d", "e", "s", "c", "r", "i", "p", "t", "i", "o", "n">>, <<"p", "e", "r", "m", "i", "s", "s", "i", "o", "n", "s">>>>
       /\ FieldValue(fields[1]) = Quoted(ret.proj)
       /\ FieldValue(fields[2]) = Quoted(ret.role)
       /\ \E t \in {SubSeq(FieldValue(fields[3]), 2, Len(FieldValue(fields[3])) - 1)} :
            /\ FieldValue(fields[3]) = Quoted(t)
            /\ IsTitleOf(t, ret.role)
       /\ Len(items) = Len(perms)
       /\ {ItemOf(items[i]) : i \in 1..Len(items)} = Range(perms)
       /\ (perms = <<>> => FieldValue(fields[5]) = <<"[", "]">>)
       /\ (/\ ret.proj = <<"d", "e", "m", "o", "-", "p", "r", "o", "j", "e", "c", "t">>
           /\ ret.role = <<"c", "u", "s", "t", "o", "m", "_", "c", "o", "m", "p", "u", "t", "e", "_", "v", "i", "e", "w", "e", "r">>
           /\ perms = <<<<"r", "o", "l", "e", "s", "/", "c", "o", "m", "p", "u", "t", "e", ".", "v", "i", "e", "w", "e", "r">>>>)
          => /\ ret.render.value = DemoText
             /\ FieldValue(fields[3]) = Quoted(<<"C", "u", "s", "t", "o", "m", " ", "C", "o", "m", "p", "u", "t", "e", " ", "V", "i", "e", "w", "e", "r">>)
             /\ items = <<<<" ", " ", " ", " ", "\"", "r", "o", "l", "e", "s", "/", "c", "o", "m", "p", "u", "t", "e", ".", "v", "i", "e", "w", "e", "r", "\"">>>>
C7_Witness ==
  /\ Rendered
  /\ ret.proj = <<"d", "e", "m", "o", "-", "p", "r", "o", "j", "e", "c", "t">>
  /\ ret.role = <<"c", "u", "s", "t", "o", "m", "_", "c", "o", "m", "p", "u", "t", "e", "_", "v", "i", "e", "w", "e", "r">>
  /\ ret.before[ret.role] = <<<<"r", "o", "l", "e", "s", "/", "c", "o", "m", "p", "u", "t", "e", ".", "v", "i", "e", "w", "e", "r">>>>

\* C8: the rendered text does not depend on the order in which the permission set
\* was iterated when it was registered: every order of the same set renders to the
\* text that was returned.
C8_OrderIndependent ==
  Rendered =>
    \A l \in ListsOf(Range(ret.before[ret.role])) :
      TerraformTemplate(ret.proj, ret.role, l) = ret.render.value

\* C9: generate_terraform_config raises the not-found error and returns no text
\* when the role name is not a key of custom_roles, returns a block when it is, and
\* leaves custom_roles as it was in both cases.
C9_UnregisteredRoleFails ==
  ret.op = "render" =>
    /\ custom_roles = ret.before
    /\ IF ret.role \in DOMAIN ret.before
       THEN ret.render.exc = NoExc /\ ret.render.value # <<>>
       ELSE /\ ret.render.exc = "ValueError"
            /\ ret.render.value = <<>>
            /\ ret.render.msg = <<"C", "u", "s", "t", "o", "m", " ", "r", "o", "l", "e", " ">> \o ret.role \o <<" ", "n", "o", "t", " ", "f", "o", "u", "n", "d">>
C9_Witness ==
  /\ ret.op = "render"
  /\ ret.role \notin DOMAIN custom_roles
  /\ DOMAIN custom_roles # {}
  /\ ret.render.exc = "ValueError"

Terminated == gpc \in {"done", "error", "crashed"}
Resolvable == Truthy(project_id) \/ Truthy(default_project)

\* C4: when generate ends in its error handler (no project id, unknown service,
\* unknown level, unregistered role) the output path is as it was at the start and
\* nothing was printed to standard output; the file or standard output has changed
\* only once the project, the lookup and the rendering have all succeeded.
C4_NoOutputOnError ==
  /\ gpc = "error" => (file.now = file.start /\ stdout = <<>> /\ exit_code # 0)
  /\ (file.now # file.start \/ stdout # <<>>) =>
       /\ gpc \in {"done", "crashed"}
       /\ project # <<>>
       /\ InCatalog(service, level)
       /\ tf_config = TerraformTemplate(project, role_name, custom_roles[role_name])
C4_Witness ==
  /\ gpc = "error"
  /\ ~output.isNone
  /\ file.start.exists
  /\ Resolvable
  /\ service \in DOMAIN Catalog

LookupErrorText ==
  IF service \notin DOMAIN Catalog
  THEN <<"E", "r", "r", "o", "r", ":", " ", "S", "e", "r", "v", "i", "c", "e", " ">> \o service \o <<" ", "n", "o", "t", " ", "f", "o", "u", "n", "d", " ", "i", "n", " ", "c", "o", "m", "m", "o", "n", " ", "s", "e", "r", "v", "i", "c", "e", "s">>
  ELSE <<"E", "r", "r", "o", "r", ":", " ", "L", "e", "v", "e", "l", " ">> \o level \o <<" ", "n", "o", "t", " ", "f", "o", "u", "n", "d", " ", "f", "o", "r", " ", "s", "e", "r", "v", "i", "c", "e", " ">> \o service

\* C6 as stated: for every pair absent from the catalog, generate ends by reporting
\* the lookup's error, which names the invalid key, on the error stream with a
\* non-zero exit code, whether or not a project id is configured.
C6_AlwaysReportsLookupError ==
  (Terminated /\ ~InCatalog(service, level)) =>
    /\ gpc = "error"
    /\ exit_code # 0
    /\ stderr = <<LookupErrorText>>

\* C6 as amended: for every pair absent from the catalog, generate ends in its error
\* handler with a non-zero exit code and one line on the error stream; the line is
\* the lookup's error naming the invalid key when a project id is available, and
\* the missing-project-id error, the lookup not being reached, when none is.
C6_ReportsLookupOrProjectError ==
  (Terminated /\ ~InCatalog(service, level)) =>
    /\ gpc = "error"
    /\ exit_code # 0
    /\ stdout = <<>>
    /\ stderr = <<IF Resolvable THEN LookupErrorText
                  ELSE <<"E", "r", "r", "o", "r", ":", " ", "G", "C", "P", "_", "P", "R", "O", "J", "E", "C", "T", "_", "I", "D", " ", "m", "u", "s", "t", " ", "b", "e", " ", "s", "e", "t", " ", "i", "n", " ", "e", "n", "v", "i", "r", "o", "n", "m", "e", "n", "t", " ", "o", "r", " ", ".", "e", "n", "v", " ", "f", "i", "l", "e">>>>
C6_Witness ==
  /\ gpc = "error"
  /\ Resolvable
  /\ service \in DOMAIN Catalog
  /\ level \notin DOMAIN Catalog[service]
  /\ stderr = <<LookupErrorText>>

----------------------------------------------------------------------------
\* Properties of the policy auditor.

AuthorizationDiagnostic == Printed(<<"[", "r", "e", "d", "]", "E", "r", "r", "o", "r", ":", "[", "/", "r", "e", "d", "]", " ", "I", "n", "s", "u", "f", "f", "i", "c", "i", "e", "n", "t", " ", "p", "e", "r", "m", "i", "s", "s", "i", "o", "n", "s", ".", " ", "P", "l", "e", "a", "s", "e", " ", "e", "n", "s", "u", "r", "e", " ", "y", "o", "u", "r", " ", "s", "e", "r", "v", "i", "c", "e", " ", "a", "c", "c", "o", "u", "n", "t", " ", "h", "a", "s", " ", "t", "h", "e", " ", "'", "r", "o", "l", "e", "s", "/", "v", "i", "e", "w", "e", "r", "'", " ", "r", "o", "l", "e", ".">>)
NotFoundDiagnostic(pid) == Printed(<<"[", "r", "e", "d", "]", "E", "r", "r", "o", "r", ":", "[", "/", "r", "e", "d", "]", " ", "P", "r", "o", "j", "e", "c", "t", " ">> \o pid \o <<" ", "n", "o", "t", " ", "f", "o", "u", "n", "d", ".">>)
GenericDiagnostic == Printed(<<"[", "r", "e", "d", "]", "E", "r", "r", "o", "r", ":", "[", "/", "r", "e", "d", "]", " ", "F", "a", "i", "l", "e", "d", " ", "t", "o", " ", "a", "n", "a", "l", "y", "z", "e", " ", "p", "e", "r", "m", "i", "s", "s", "i", "o", "n", "s", ".", " ", "C", "h", "e", "c", "k", " ", "i", "f", " ", "r", "e", "q", "u", "i", "r", "e", "d", " ", "A", "P", "I", "s", " ", "a", "r", "e", " ", "e", "n", "a", "b", "l", "e", "d", ".">>)
InitDiagnostic == Printed(<<"[", "r", "e", "d", "]", "E", "r", "r", "o", "r", ":", "[", "/", "r", "e", "d", "]", " ", "F", "a", "i", "l", "e", "d", " ", "t", "o", " ", "i", "n", "i", "t", "i", "a", "l", "i", "z", "e", " ", "G", "o", "o", "g", "l", "e", " ", "C", "l", "o", "u", "d", " ", "c", "l", "i", "e", "n", "t", ".", " ", "C", "h", "e", "c", "k", " ", "y", "o", "u", "r", " ", "s", "e", "r", "v", "i", "c", "e", " ", "a", "c", "c", "o", "u", "n", "t", " ", "c", "r", "e", "d", "e", "n", "t", "i", "a", "l", "s", ".">>)

\* get_project_permissions has returned, or audit_gcp after it.
GetReturned == apc = "display" \/ (apc = "returned" /\ credentials)
Failed == raised.kind # "none"
Configured == Truthy(audit_project_id) /\ Truthy(creds_env)

\* C1: client.get_iam_policy is called at most once, whatever its outcome, and
\* exactly once when the credentials were loaded and the client was constructed.
C1_FetchedOnce ==
  /\ calls <= 1
  /\ (calls = 1 => client)
  /\ (client /\ apc \in {"process", "display", "returned"}) => calls = 1
C1_Witness ==
  /\ apc = "returned"
  /\ raised.kind = "ServiceUnavailable"
  /\ calls = 1

\* C2 as stated: every failure of get_project_permissions prints one of three
\* diagnostics and returns the empty list: the authorization message for an
\* authorization failure, the message naming the project for not-found, and the
\* one generic message for any other failure, unloadable credentials included.
C2_ThreeDiagnostics ==
  (apc = "display" /\ Failed) =>
    /\ audit_permissions = <<>>
    /\ console[Len(console)] =
         IF raised.kind = "PermissionDenied" THEN AuthorizationDiagnostic
         ELSE IF raised.kind = "NotFound" THEN NotFoundDiagnostic(audit_project_id.s)
         ELSE GenericDiagnostic

\* C2 as amended: every failure of get_project_permissions prints exactly one of
\* four pairwise distinct diagnostics and returns the empty list: the
\* client-initialisation message when loading the credentials or constructing the
\* client fails, and otherwise the authorization message, the message naming the
\* project, or the generic message; without a failure nothing is printed.
C2_FourDiagnostics ==
  apc = "display" =>
    IF ~Failed THEN console = <<>>
    ELSE /\ audit_permissions = <<>>
         /\ Len(console) = 2
         /\ console[1].kind = "log"
         /\ console[2] =
              IF ~client THEN InitDiagnostic
              ELSE IF raised.kind = "PermissionDenied" THEN AuthorizationDiagnostic
              ELSE IF raised.kind = "NotFound" THEN NotFoundDiagnostic(audit_project_id.s)
              ELSE GenericDiagnostic
         /\ Cardinality({AuthorizationDiagnostic, NotFoundDiagnostic(audit_project_id.s),
                         GenericDiagnostic, InitDiagnostic}) = 4
C2_Witness ==
  /\ apc = "display"
  /\ raised.kind = "NotFound"
  /\ console[Len(console)] = NotFoundDiagnostic(<<"d", "e", "m", "o", "-", "p", "r", "o", "j", "e", "c", "t">>)

\* C3: get_project_permissions returns the empty list when the call or the
\* conversion of a binding failed, whatever was converted before, and otherwise one
\* record per binding of the policy, in policy order, with resource
\* projects/<project_id>; only such a full list is displayed.
C3_NoPartialResults ==
  GetReturned =>
    /\ IF Failed THEN audit_permissions = <<>>
       ELSE /\ policy.received /\ calls = 1
            /\ audit_permissions =
                 [i \in 1..Len(policy.bindings) |->
                    [role |-> policy.bindings[i].role,
                     members |-> policy.bindings[i].members,
                     resource |-> <<"p", "r", "o", "j", "e", "c", "t", "s", "/">> \o audit_project_id.s]]
    /\ display \in {<<>>, audit_permissions}
C3_Witness ==
  /\ apc = "display"
  /\ raised.kind = "TypeError"
  /\ Len(policy.bindings) = 2
  /\ Len(results) = 1
  /\ audit_permissions = <<>>

\* C10: when the project id or the credentials variable is absent, audit_gcp
\* prints the matching message and returns, with no remote call and no table; the
\* credentials are loaded and the remote call made only after both checks passed.
C10_MissingConfiguration ==
  /\ (calls > 0 \/ credentials \/ client \/ display # <<>>) => (Configured /\ answer)
  /\ ~Configured =>
       /\ apc \in {"check_project", "check_credentials", "returned"}
       /\ calls = 0 /\ display = <<>> /\ ~Failed
       /\ apc = "returned" =>
            console = <<IF ~Truthy(audit_project_id)
                        THEN Printed(<<"[", "r", "e", "d", "]", "E", "r", "r", "o", "r", ":", "[", "/", "r", "e", "d", "]", " ", "P", "r", "o", "j", "e", "c", "t", " ", "I", "D", " ", "i", "s", " ", "r", "e", "q", "u", "i", "r", "e", "d", ".", " ", "P", "l", "e", "a", "s", "e", " ", "p", "r", "o", "v", "i", "d", "e", " ", "i", "t", " ", "v", "i", "a", " ", "-", "-", "p", "r", "o", "j", "e", "c", "t", "-", "i", "d", " ", "o", "r", " ", "G", "O", "O", "G", "L", "E", "_", "C", "L", "O", "U", "D", "_", "P", "R", "O", "J", "E", "C", "T", " ", "e", "n", "v", "i", "r", "o", "n", "m", "e", "n", "t", " ", "v", "a", "r", "i", "a", "b", "l", "e", ".">>)
                        ELSE Printed(<<"[", "r", "e", "d", "]", "E", "r", "r", "o", "r", ":", "[", "/", "r", "e", "d", "]", " ", "G", "o", "o", "g", "l", "e", " ", "C", "l", "o", "u", "d", " ", "c", "r", "e", "d", "e", "n", "t", "i", "a", "l", "s", " ", "n", "o", "t", " ", "f", "o", "u", "n", "d", ".", " ", "P", "l", "e", "a", "s", "e", " ", "s", "e", "t", " ", "G", "O", "O", "G", "L", "E", "_", "A", "P", "P", "L", "I", "C", "A", "T", "I", "O", "N", "_", "C", "R", "E", "D", "E", "N", "T", "I", "A", "L", "S", " ", "e", "n", "v", "i", "r", "o", "n", "m", "e", "n", "t", " ", "v", "a", "r", "i", "a", "b", "l", "e", ".">>)>>
C10_Witness ==
  /\ apc = "returned"
  /\ Truthy(audit_project_id)
  /\ creds_env = None
  /\ console = <<MissingCredentialsMessage>>
====
